---- MODULE Spec2Model ----
(***************************************************************************)
(* Model of the ByteWatch progressive stream aggregator:                   *)
(*   src/index.js          stream handler, result cache, failure memory,   *)
(*                         extractStreamsProgressively, formatStreams      *)
(*   src/unnamed/part_000  unified extractor (runExtractor) and the        *)
(*                         manifest resolver parseM3U8PlaylistImmediate    *)
(*                                                                         *)
(* JavaScript runs every callback to completion, so one action is one      *)
(* macrotask together with the promise continuations (microtasks) that it  *)
(* makes runnable.                                                         *)
(***************************************************************************)
EXTENDS Integers, Sequences, FiniteSets, TLC

VARIABLES
    streamCache,    \* Result Cache: request key -> StreamMap snapshot
    failureCache,   \* Failure Memory: failure key -> list of provider names
    req,            \* per request slot: handler position, run state, tasks
    timerQueue,     \* setTimeout timers not yet fired, in creation order, as
                    \* lists of timers set in one tick with one delay
    env,            \* the environment explored: the requests and provider steps left
    populatedBy,    \* history: for each Result Cache entry, the answer given
                    \* by the request that wrote it
    call            \* the application of a function looked at on its own: its
                    \* arguments and its result (NoCall in the whole program)

vars == <<streamCache, failureCache, req, timerQueue, env, populatedBy, call>>

-----------------------------------------------------------------------------
(* Bounds of the model *)

MaxRequests == 2
MaxActivity == 1
MaxRunActivity == 3
MaxPlaylists == 2
MaxEntries == 3
MaxOverlapActivity == 2

\* the handler invocations that may be live at once
Slots == {1, 2}

-----------------------------------------------------------------------------
(* Values *)

Undefined == "undefined"

\* no function is looked at on its own
NoCall == [fn |-> "none"]

\* src/index.js:26-37
SOURCES ==
    << [name |-> "vidlink", timeout |-> 20000, priority |-> 2],
       [name |-> "wooflix", timeout |-> 20000, priority |-> 3],
       [name |-> "vidfast", timeout |-> 20000, priority |-> 1],
       [name |-> "vilora",  timeout |-> 20000, priority |-> 7],
       [name |-> "vidify",  timeout |-> 20000, priority |-> 9],
       [name |-> "vidjoy",  timeout |-> 20000, priority |-> 10] >>

SourceNames == { SOURCES[i].name : i \in 1..Len(SOURCES) }

\* src/unnamed/part_000:7-49: the providers that have a URL builder
extractors == {"wooflix", "vidjoy", "vidify", "vidfast", "vidlink", "mappletv"}

\* the outcomes of fetchOmdbDetails (src/index.js:39-52)
OmdbUnknown == [Title |-> "Unknown", Year |-> "Unknown"]
OmdbFound   == [Title |-> "T", Year |-> "2020"]
OmdbResults == { OmdbUnknown, OmdbFound }

\* the requests the handler is called with: type and id.split(':')
MovieInput     == [type |-> "movie",  id |-> <<"tt1">>]
SeriesInput    == [type |-> "series", id |-> <<"tt1", "1", "2">>]
ShortSeriesInput == [type |-> "series", id |-> <<"tt1">>]
ChannelInput   == [type |-> "channel", id |-> <<"tt1">>]
HandlerInputs  == { MovieInput, SeriesInput, ShortSeriesInput, ChannelInput }

\* A URL string is modelled by its split('/'): "https://h.test/a/b/master.m3u8"
\* is <<"https:", "", "h.test", "a", "b", "master.m3u8">>.
ManifestUrl == <<"https:", "", "h.test", "a", "b", "master.m3u8">>
VideoUrl    == <<"https:", "", "cdn.test", "v", "movie.mp4">>
AdsUrl      == <<"https:", "", "ads.test", "pixel.m3u8">>
RequestUrls == { ManifestUrl, VideoUrl, AdsUrl }

\* String.prototype.includes on the vocabulary of URL segments used here:
\* <<segment, needle>> is listed when the segment contains the needle.
SegmentIncludes ==
    { <<"master.m3u8", ".m3u8">>, <<"master.m3u8?t=x", ".m3u8">>, <<"1.m3u8", ".m3u8">>, <<"pixel.m3u8", ".m3u8">>, <<"movie.mp4", ".mp4">>,
      <<"ads.test", "ads">>, <<"vidjoy.pro", "vidjoy">> }

Includes(url, needle) == \E i \in 1..Len(url) : <<url[i], needle>> \in SegmentIncludes

\* startsWith('http') and startsWith('/') on a split URL; the first segments
\* of the vocabulary that begin with the letters http
HttpPrefixed == {"http:", "https:", "http_low"}
StartsWithHttp(uri) == Len(uri) > 0 /\ uri[1] \in HttpPrefixed
StartsWithSlash(uri) == Len(uri) > 1 /\ uri[1] = ""

-----------------------------------------------------------------------------
(* StreamMap: a JavaScript object used as an insertion-ordered map from     *)
(* display key to URL, modelled as a sequence of entries with distinct keys. *)
(* The display key `${source} ${label}` is the pair <<source, label>>.       *)

EmptyMap == << >>

Keys(m) == { m[i].key : i \in 1..Len(m) }

Get(m, k) == LET i == CHOOSE j \in 1..Len(m) : m[j].key = k IN m[i].url

\* an assignment that leaves the value of a key that is there
PutKeepsFirst(m, k, u) ==
    IF k \in Keys(m) THEN m ELSE Append(m, [key |-> k, url |-> u])

\* an assignment that adds an entry whether or not the key is there
PutAppend(m, k, u) == Append(m, [key |-> k, url |-> u])

\* obj[key] = url
Put(m, k, u) ==
    IF k \in Keys(m)
    THEN [i \in 1..Len(m) |-> IF m[i].key = k THEN [key |-> k, url |-> u] ELSE m[i]]
    ELSE Append(m, [key |-> k, url |-> u])

\* a merge that keeps the target's value on a key both objects have
RECURSIVE AssignMissingOnly(_, _)
AssignMissingOnly(target, source) ==
    IF source = << >> THEN target
    ELSE AssignMissingOnly(
            IF Head(source).key \in Keys(target) THEN target
            ELSE Append(target, Head(source)),
            Tail(source))

\* Object.assign(target, source)
RECURSIVE ObjectAssign(_, _)
ObjectAssign(target, source) ==
    IF source = << >> THEN target
    ELSE ObjectAssign(Put(target, Head(source).key, Head(source).url), Tail(source))

\* every entry of fragment is an entry of m
Contains(m, fragment) ==
    \A i \in 1..Len(fragment) :
        fragment[i].key \in Keys(m) /\ Get(m, fragment[i].key) = fragment[i].url

-----------------------------------------------------------------------------
(* Manifest resolver, src/unnamed/part_000:58-123 *)

\* What axios.get + m3u8-parser give for a playlist URL: a fetch error, or
\* the parsed manifest (its playlists, each with attributes and uri).  An
\* attribute that may be absent is << >> when absent and <<v>> when present.
FetchError == [error |-> TRUE, playlists |-> << >>]
MediaManifest == [error |-> FALSE, playlists |-> << >>]
MasterManifest ==
    [error |-> FALSE,
     playlists |->
        << [RESOLUTION |-> << [height |-> 1080] >>, BANDWIDTH |-> << 5000000 >>,
            uri |-> <<"video", "1.m3u8">>],
           [RESOLUTION |-> << >>, BANDWIDTH |-> << 1600000 >>,
            uri |-> <<"", "v", "1.m3u8">>] >>]
ManifestResponses == { FetchError, MediaManifest, MasterManifest }

\* src/unnamed/part_000:85-97
QualityLabel(playlist) ==
    IF playlist.RESOLUTION # << >>
    THEN LET height == playlist.RESOLUTION[1].height IN
         IF height >= 1080 THEN "1080p"
         ELSE IF height >= 720 THEN "720p"
         ELSE IF height >= 480 THEN "480p"
         ELSE "360p"
    ELSE IF playlist.BANDWIDTH # << >> /\ playlist.BANDWIDTH[1] # 0
    THEN IF playlist.BANDWIDTH[1] >= 3000000 THEN "1080p"
         ELSE IF playlist.BANDWIDTH[1] >= 1500000 THEN "720p"
         ELSE IF playlist.BANDWIDTH[1] >= 800000 THEN "480p"
         ELSE "360p"
    ELSE "Unknown Quality"

\* src/unnamed/part_000:99-108
ResolveUri(uri, playlistUrl) ==
    IF StartsWithHttp(uri) THEN uri
    ELSE IF StartsWithSlash(uri)
    THEN <<playlistUrl[1], "", playlistUrl[3]>> \o Tail(uri)
    ELSE SubSeq(playlistUrl, 1, Len(playlistUrl) - 1) \o uri

\* the loop with keys made of the label alone
RECURSIVE QualityStreamsByLabel(_, _, _, _)
QualityStreamsByLabel(playlists, playlistUrl, source, acc) ==
    IF playlists = << >> THEN acc
    ELSE QualityStreamsByLabel(Tail(playlists), playlistUrl, source,
            Put(acc, <<"", QualityLabel(Head(playlists))>>,
                ResolveUri(Head(playlists).uri, playlistUrl)))

\* src/unnamed/part_000:81-112, the loop over parsedManifest.playlists
RECURSIVE QualityStreams(_, _, _, _)
QualityStreams(playlists, playlistUrl, source, acc) ==
    IF playlists = << >> THEN acc
    ELSE QualityStreams(Tail(playlists), playlistUrl, source,
            Put(acc, <<source, QualityLabel(Head(playlists))>>,
                ResolveUri(Head(playlists).uri, playlistUrl)))

\* a resolver without the else branch for a manifest that has no renditions
parseMediaAsNothing(response, playlistUrl, source) ==
    IF response.error
    THEN << [key |-> <<source, "Link">>, url |-> playlistUrl] >>
    ELSE QualityStreams(response.playlists, playlistUrl, source, EmptyMap)

\* a resolver whose catch block returns an empty object
parseFailureAsNothing(response, playlistUrl, source) ==
    IF response.error
    THEN EmptyMap
    ELSE IF Len(response.playlists) > 0
    THEN QualityStreams(response.playlists, playlistUrl, source, EmptyMap)
    ELSE << [key |-> <<source, "Link">>, url |-> playlistUrl] >>

\* src/unnamed/part_000:58-123
parseM3U8PlaylistImmediate(response, playlistUrl, source) ==
    IF response.error
    THEN << [key |-> <<source, "Link">>, url |-> playlistUrl] >>
    ELSE IF Len(response.playlists) > 0
    THEN QualityStreams(response.playlists, playlistUrl, source, EmptyMap)
    ELSE << [key |-> <<source, "Link">>, url |-> playlistUrl] >>

-----------------------------------------------------------------------------
(* The shared collector, src/index.js:69-84 *)

NewCollector == [results |-> EmptyMap, count |-> 0, _processing |-> FALSE]

\* add() without the finally block: the flag stays set
AddNoFinally(collector, sourceResults) ==
    IF collector._processing THEN collector
    ELSE LET merged == ObjectAssign(collector.results, sourceResults) IN
         [results |-> merged, count |-> Len(merged), _processing |-> TRUE]

\* streamResultCollector.add(sourceResults)
CollectorAdd(collector, sourceResults) ==
    IF collector._processing THEN collector
    ELSE LET entered == [collector EXCEPT !._processing = TRUE]
             merged  == ObjectAssign(entered.results, sourceResults)
             body    == [entered EXCEPT !.results = merged, !.count = Len(merged)]
         IN  [body EXCEPT !._processing = FALSE]

-----------------------------------------------------------------------------
(* Result Presenter, src/index.js:151-189 *)

\* name.includes(quality) for a display key `${source} ${label}`
NameIncludes(key, needle) ==
    \/ key[2] = needle
    \/ needle \in {"hindi", "Hindi"} /\ key[1] = "autoembed-hindi"

getQualityWeight(key) ==
    IF NameIncludes(key, "1080p") THEN 1
    ELSE IF NameIncludes(key, "720p") THEN 2
    ELSE IF NameIncludes(key, "480p") THEN 3
    ELSE 4

Icon(key) ==
    IF NameIncludes(key, "1080p") THEN "fire"
    ELSE IF NameIncludes(key, "720p") THEN "star"
    ELSE IF NameIncludes(key, "480p") THEN "tv"
    ELSE IF NameIncludes(key, "hindi") \/ NameIncludes(key, "Hindi") THEN "flag"
    ELSE "camera"

Truthy(v) == v # Undefined /\ v # ""

DisplayTitle(metadata, season, episode) ==
    LET title == IF Truthy(metadata.Title) THEN metadata.Title ELSE "Unknown"
        year  == IF Truthy(metadata.Year) THEN metadata.Year ELSE "Unknown"
    IN  IF Truthy(season) THEN <<title, "S", season, "E", episode>>
        ELSE <<title, year>>

\* A name is the pair of its icon and its text, the text of a stream entry
\* being its display key; a description is a list of its parts.
NoStreamsEntry(displayTitle) ==
    [name |-> <<"cross", <<"No Streams Available">>>>,
     url |-> <<"https:", "", "example.com", "unavailable">>,
     description |-> displayTitle]

ServiceUnavailableEntry ==
    [name |-> <<"warning", <<"Service Temporarily Unavailable">>>>,
     url |-> <<"https:", "", "example.com", "error">>,
     description |-> <<"Streaming service temporarily unavailable. Please try again.">>]

\* a sort that leaves the entries in the order of the object
SortNothing(entries) == entries

\* Array.prototype.sort with the weight comparator is stable
SortByQuality(entries) ==
    SelectSeq(entries, LAMBDA e : getQualityWeight(e.key) = 1)
    \o SelectSeq(entries, LAMBDA e : getQualityWeight(e.key) = 2)
    \o SelectSeq(entries, LAMBDA e : getQualityWeight(e.key) = 3)
    \o SelectSeq(entries, LAMBDA e : getQualityWeight(e.key) = 4)

\* formatStreams without the branch for an empty map
formatStreamsNoSentinel(streams, metadata, season, episode) ==
    LET displayTitle == DisplayTitle(metadata, season, episode)
        sorted == SortByQuality(streams)
    IN  [i \in 1..Len(sorted) |->
            [name |-> <<Icon(sorted[i].key), sorted[i].key>>,
             url |-> sorted[i].url,
             description |-> displayTitle]]

\* a presenter that puts the sentinel in front of whatever it formats
formatStreamsWithSentinel(streams, metadata, season, episode) ==
    << NoStreamsEntry(DisplayTitle(metadata, season, episode)) >>
    \o formatStreamsNoSentinel(streams, metadata, season, episode)

formatStreams(streams, metadata, season, episode) ==
    LET displayTitle == DisplayTitle(metadata, season, episode)
        sorted == SortByQuality(streams)
    IN  IF Len(streams) = 0
        THEN << NoStreamsEntry(displayTitle) >>
        ELSE [i \in 1..Len(sorted) |->
                [name |-> <<Icon(sorted[i].key), sorted[i].key>>,
                 url |-> sorted[i].url,
                 description |-> displayTitle]]

-----------------------------------------------------------------------------
(* NodeCache: get gives undefined for a missing key, set stores a copy *)

EmptyCache == [k \in {} |-> << >>]

Has(cache, key) == key \in DOMAIN cache

CacheSet(cache, key, value) == (key :> value) @@ cache

CacheDel(cache, key) == [k \in DOMAIN cache \ {key} |-> cache[k]]

-----------------------------------------------------------------------------
(* Requests and Extraction Tasks *)

NoTask ==
    [ext |-> "none", browser |-> "none", streamUrls |-> EmptyMap,
     detectedStreams |-> << >>, processedUrls |-> {}, pending |-> {},
     caught |-> FALSE, status |-> "none", error |-> ""]

IdleRequest ==
    [pc |-> "idle", type |-> Undefined, imdbId |-> Undefined,
     season |-> Undefined, episode |-> Undefined, metadata |-> OmdbUnknown,
     cacheHit |-> FALSE, recentFailures |-> << >>, activeSources |-> << >>,
     collector |-> NewCollector, lastAdd |-> EmptyMap, addedBy |-> {},
     concurrent |-> {}, failureWrites |-> 0,
     tasks |-> [n \in SourceNames |-> NoTask],
     returned |-> EmptyMap, threw |-> FALSE, response |-> << >>]

\* src/index.js:192 and :217
CacheKey(r) ==
    IF r.type = "movie" THEN <<r.type, r.imdbId>>
    ELSE <<r.type, r.imdbId, r.season, r.episode>>

\* src/index.js:61
FailureKey(r) == <<"failure", r.type, r.imdbId, r.season, r.episode>>

\* array destructuring of id.split(':')
Part(id, k) == IF k <= Len(id) THEN id[k] ELSE Undefined

\* a slice that keeps the whole list
SliceKeepsAll(list, n) == list

\* Array.prototype.slice(-n)
SliceLast(list, n) ==
    IF Len(list) <= n THEN list ELSE SubSeq(list, Len(list) - n + 1, Len(list))

\* the registry without the filter on recentFailures
ActiveSourcesUnfiltered(recentFailures) ==
    [k \in 1..Len(SOURCES) |-> SOURCES[k].name]

\* src/index.js:62-63
ActiveSources(recentFailures) ==
    LET names == [k \in 1..Len(SOURCES) |-> SOURCES[k].name]
        inRecent(n) == \E j \in 1..Len(recentFailures) : recentFailures[j] = n
    IN  SelectSeq(names, LAMBDA n : ~inRecent(n))

TimeoutOf(name) ==
    LET k == CHOOSE j \in 1..Len(SOURCES) : SOURCES[j].name = name IN SOURCES[k].timeout

\* an add that replaces the shared map by the fragment
AddReplaces(r, fragment, caller) ==
    [r EXCEPT !.collector = [results |-> fragment, count |-> Len(fragment),
                             _processing |-> FALSE],
              !.lastAdd = fragment,
              !.addedBy = @ \cup {caller}]

\* an add whose merges show in the list already answered
AddUpdatesResponse(r, fragment, caller) ==
    LET merged == CollectorAdd(r.collector, fragment) IN
    [r EXCEPT !.collector = merged,
              !.lastAdd = fragment,
              !.addedBy = @ \cup {caller},
              !.response = IF r.pc = "done"
                           THEN formatStreams(merged.results, r.metadata, r.season, r.episode)
                           ELSE @]

\* the collector's add, called for the run of request record r; lastAdd and
\* addedBy remember the last fragment passed and the callers so far
Add(r, fragment, caller) ==
    [r EXCEPT !.collector = CollectorAdd(r.collector, fragment),
              !.lastAdd = fragment,
              !.addedBy = @ \cup {caller}]

\* the wait ends with the first task that settles
AnySettled(r) ==
    \E k \in 1..Len(r.activeSources) : r.tasks[r.activeSources[k]].status # "pending"

\* Promise.allSettled(extractionPromises) has resolved, src/index.js:119
AllSettled(r) ==
    \A k \in 1..Len(r.activeSources) : r.tasks[r.activeSources[k]].status # "pending"

\* newFailures that also takes the providers whose outcome is 'empty'
NewFailuresWithEmpty(r) ==
    SelectSeq(r.activeSources, LAMBDA n : r.tasks[n].status \in {"failed", "empty"})

\* src/index.js:121-133
NewFailures(r) == SelectSeq(r.activeSources, LAMBDA n : r.tasks[n].status = "failed")

\* the list is stored without slice(-3)
FailureCacheUntrimmed(r, cache) ==
    IF Len(NewFailures(r)) > 0
    THEN CacheSet(cache, FailureKey(r), r.recentFailures \o NewFailures(r))
    ELSE cache

\* the calls of failureCache.set the run makes, src/index.js:136-139
FailureWrites(r) == IF Len(NewFailures(r)) > 0 THEN 1 ELSE 0

\* the new failures are appended to the record as it is when the run ends
FailureCacheOnCurrent(r, cache) ==
    IF Len(NewFailures(r)) > 0
    THEN CacheSet(cache, FailureKey(r),
                  SliceLast((IF Has(cache, FailureKey(r)) THEN cache[FailureKey(r)] ELSE << >>)
                            \o NewFailures(r), 3))
    ELSE cache

\* src/index.js:135-139
FailureCacheAfterRun(r, cache) ==
    IF Len(NewFailures(r)) > 0
    THEN CacheSet(cache, FailureKey(r), SliceLast(r.recentFailures \o NewFailures(r), 3))
    ELSE cache

\* the entry is written whatever the size of the map
StreamCacheAlwaysSet(r, cache, full) ==
    IF ~full THEN CacheSet(cache, CacheKey(r), r.collector.results) ELSE cache

\* src/index.js:209-211 and :239-241; full: the cache holds maxKeys keys, set throws
StreamCacheAfterRun(r, cache, full) ==
    IF Len(r.collector.results) > 0 /\ ~full
    THEN CacheSet(cache, CacheKey(r), r.collector.results)
    ELSE cache

\* the run returns the local streamResults of src/index.js:56, never filled
RespondStreamResults(r, full) ==
    [r EXCEPT !.pc = "done",
              !.failureWrites = FailureWrites(r),
              !.returned = EmptyMap,
              !.threw = FALSE,
              !.response = formatStreams(EmptyMap, r.metadata, r.season, r.episode)]

\* src/index.js:141-144, :204-213 and :261-276: the run returns, the handler answers
Respond(r, full) ==
    LET streams == r.collector.results
        setThrows == Len(streams) > 0 /\ full
    IN  [r EXCEPT !.pc = "done",
                  !.failureWrites = FailureWrites(r),
                  !.returned = streams,
                  !.threw = setThrows,
                  !.response = IF setThrows THEN << ServiceUnavailableEntry >>
                               ELSE formatStreams(streams, r.metadata, r.season, r.episode)]

\* The end of a macrotask of request slot i that left its record as r: when
\* every task has settled, the continuations after Promise.allSettled run.
Continue(i, r) ==
    IF r.pc = "running" /\ AllSettled(r)
    THEN \E full \in BOOLEAN :
            /\ failureCache' = FailureCacheAfterRun(r, failureCache)
            /\ streamCache' = StreamCacheAfterRun(r, streamCache, full)
            /\ req' = [req EXCEPT ![i] = Respond(r, full)]
            /\ populatedBy' =
                    IF streamCache' # streamCache
                    THEN CacheSet(populatedBy, CacheKey(r),
                                  [response |-> Respond(r, full).response,
                                   metadata |-> r.metadata])
                    ELSE populatedBy
    ELSE /\ req' = [req EXCEPT ![i] = r]
         /\ UNCHANGED <<failureCache, streamCache, populatedBy>>

-----------------------------------------------------------------------------
(* Actions *)

Init ==
    /\ streamCache = EmptyCache
    /\ failureCache = EmptyCache
    /\ req = [i \in Slots |-> IdleRequest]
    /\ timerQueue = << >>
    /\ populatedBy = EmptyCache
    /\ call = NoCall
    /\ env = [requests |-> MaxRequests, activity |-> MaxActivity,
              closeFailures |-> 0,
              responsive |-> {"vidjoy"},
              inputs |-> { MovieInput, SeriesInput, ChannelInput },
              omdb |-> { OmdbUnknown }]

\* The stream handler is called, src/index.js:246-259, up to the first await
\* of getMovieStreams / getSeriesStreams (src/index.js:192-193, :217-218)
\* A slot is free when it holds no invocation or one that has answered.  What
\* the extractors of an answered invocation still do reaches only the
\* collector of its own run, so the model stops following them when the slot
\* is taken again (its timers, all decided, leave the queue with it).
Free(i) == req[i].pc \in {"idle", "done"}

Arrive(i, input) ==
    /\ env.requests > 0
    /\ input \in env.inputs
    /\ Free(i)
    /\ \A j \in Slots : j < i => ~Free(j)
    /\ req' = [req EXCEPT ![i] =
            IF input.type = "movie"
            THEN [IdleRequest EXCEPT !.pc = "meta1", !.type = "movie",
                                     !.imdbId = Part(input.id, 1)]
            ELSE IF input.type = "series"
            THEN [IdleRequest EXCEPT !.pc = "meta1", !.type = "series",
                                     !.imdbId = Part(input.id, 1),
                                     !.season = Part(input.id, 2),
                                     !.episode = Part(input.id, 3)]
            ELSE [IdleRequest EXCEPT !.pc = "done", !.type = input.type,
                                     !.response = << >>]]
    /\ timerQueue' = SelectSeq(timerQueue, LAMBDA e : e.slot # i)
    /\ env' = [env EXCEPT !.requests = @ - 1]
    /\ UNCHANGED <<streamCache, failureCache, populatedBy, call>>

\* the answer on a hit, formatted as for a movie (season and episode left out)
HitResponseAsMovie(r, cached, metadata) ==
    formatStreams(cached, metadata, Undefined, Undefined)

\* the answer on a hit, src/index.js:198 and :223
HitResponse(r, cached, metadata) ==
    formatStreams(cached, metadata, r.season, r.episode)

\* fetchOmdbDetails answered; the read-through of the Result Cache,
\* src/index.js:195-204 and :220-234
CacheLookup(i, metadata) ==
    /\ req[i].pc = "meta1"
    /\ metadata \in env.omdb
    /\ LET r == [req[i] EXCEPT !.metadata = metadata] IN
       req' = [req EXCEPT ![i] =
            IF Has(streamCache, CacheKey(r))
            THEN [r EXCEPT !.pc = "done", !.cacheHit = TRUE,
                           !.response = HitResponse(r, streamCache[CacheKey(r)],
                                                    metadata)]
            ELSE [r EXCEPT !.pc = "meta2"]]
    /\ UNCHANGED <<streamCache, failureCache, timerQueue, env, populatedBy, call>>

\* runExtractor without the lookup in the extractors table
LaunchAny(name) == [NoTask EXCEPT !.ext = "running", !.status = "pending"]

\* runExtractor up to its first await, src/unnamed/part_000:126-132, and the
\* .catch of a rejected race, src/index.js:107-110
Launch(name) ==
    IF name \in extractors
    THEN [NoTask EXCEPT !.ext = "running", !.status = "pending"]
    ELSE [NoTask EXCEPT !.ext = "rejected", !.status = "failed", !.error = "unknown"]

\* The setTimeout calls of src/index.js:91-93 for one run: they are made in
\* one tick, so timers of equal delay expire together and Node runs their
\* callbacks back to back, in the order set, before any I/O callback.
TimerLists(i, activeSources) ==
    LET delays == { TimeoutOf(activeSources[k]) : k \in 1..Len(activeSources) }
        listOf(d) == [slot |-> i, timeout |-> d,
                      sources |-> SelectSeq(activeSources, LAMBDA n : TimeoutOf(n) = d)]
        RECURSIVE ordered(_)
        ordered(ds) == IF ds = {} THEN << >>
                       ELSE LET d == CHOOSE x \in ds : \A y \in ds : x <= y
                            IN  << listOf(d) >> \o ordered(ds \ {d})
    IN  ordered(delays)

\* extractStreamsProgressively after its fetchOmdbDetails, src/index.js:61-111
StartRun(i) ==
    /\ req[i].pc = "meta2"
    /\ LET r == req[i]
           recentFailures == IF Has(failureCache, FailureKey(r))
                             THEN failureCache[FailureKey(r)] ELSE << >>
           activeSources == ActiveSources(recentFailures)
           isActive(n) == \E k \in 1..Len(activeSources) : activeSources[k] = n
           started == [r EXCEPT !.pc = "running",
                                !.concurrent = { FailureKey(req[j]) :
                                                    j \in { x \in Slots : req[x].pc = "running" } },
                                !.recentFailures = recentFailures,
                                !.activeSources = activeSources,
                                !.collector = NewCollector,
                                !.tasks = [n \in SourceNames |->
                                    IF isActive(n) THEN Launch(n) ELSE NoTask]]
       IN  /\ timerQueue' = timerQueue \o TimerLists(i, activeSources)
           /\ Continue(i, started)
    /\ UNCHANGED <<env, call>>

\* a list set earlier with a delay no longer expires no later
CanFire(k) ==
    \A j \in 1..(k - 1) : timerQueue[j].timeout > timerQueue[k].timeout

\* the rejection of the timeout promise reaches .catch, src/index.js:107-110,
\* with the partial merges of the provider dropped from the shared map
TimeoutRollsBack(r, name) ==
    [r EXCEPT !.tasks[name].status = "failed",
              !.tasks[name].error = "timeout",
              !.collector.results = SelectSeq(@, LAMBDA e : e.key[1] # name)]

\* a timer whose callback rejects nothing
TimedOutIgnored(r, name) == r

\* the rejection of the timeout promise reaches .catch, src/index.js:107-110
TimedOut(r, name) ==
    [r EXCEPT !.tasks[name].status = "failed",
              !.tasks[name].error = "timeout"]

\* only the first timer of the list expires, the others never do
ExpireFirstOnly(r, sources) ==
    IF sources # << >> /\ r.tasks[Head(sources)].status = "pending"
    THEN TimedOut(r, Head(sources)) ELSE r

\* timers whose rejection settles the task whether or not the race is decided
RECURSIVE ExpireSettled(_, _)
ExpireSettled(r, sources) ==
    IF sources = << >> THEN r
    ELSE ExpireSettled(TimedOut(r, Head(sources)), Tail(sources))

\* the timers of a list expire: each callback rejects its timeout promise,
\* which loses the race if the race is decided
RECURSIVE Expire(_, _)
Expire(r, sources) ==
    IF sources = << >> THEN r
    ELSE Expire(IF r.tasks[Head(sources)].status = "pending"
                THEN TimedOut(r, Head(sources)) ELSE r,
                Tail(sources))

TimerFires(k) ==
    /\ k \in 1..Len(timerQueue)
    /\ CanFire(k)
    /\ LET e == timerQueue[k]
       IN  /\ timerQueue' = SubSeq(timerQueue, 1, k - 1)
                            \o SubSeq(timerQueue, k + 1, Len(timerQueue))
           /\ Continue(e.slot, Expire(req[e.slot], e.sources))
    /\ UNCHANGED <<env, call>>

\* connect() rejects (browser launch failure), src/unnamed/part_000:132
ConnectFails(i, name) ==
    /\ env.activity > 0
    /\ name \in env.responsive
    /\ req[i].tasks[name].ext = "running"
    /\ req[i].tasks[name].browser = "none"
    /\ LET r == req[i]
           t == r.tasks[name]
       IN  Continue(i, [r EXCEPT !.tasks[name] =
                [t EXCEPT !.ext = "rejected",
                          !.status = IF t.status = "pending" THEN "failed" ELSE @,
                          !.error = IF t.status = "pending" THEN "connect" ELSE @]])
    /\ env' = [env EXCEPT !.activity = @ - 1]
    /\ UNCHANGED <<timerQueue, call>>

\* connect() gave a browser and a call that prepares the page before the try
\* block rejects (setUserAgent, setRequestInterception,
\* evaluateOnNewDocument), src/unnamed/part_000:132-156: runExtractor rejects
\* and neither its catch nor its finally block runs
SetupFails(i, name) ==
    /\ env.activity > 0
    /\ name \in env.responsive
    /\ req[i].tasks[name].ext = "running"
    /\ req[i].tasks[name].browser = "none"
    /\ LET r == req[i]
           t == r.tasks[name]
       IN  Continue(i, [r EXCEPT !.tasks[name] =
                [t EXCEPT !.ext = "rejected",
                          !.browser = "open",
                          !.status = IF t.status = "pending" THEN "failed" ELSE @,
                          !.error = IF t.status = "pending" THEN "setup" ELSE @]])
    /\ env' = [env EXCEPT !.activity = @ - 1]
    /\ UNCHANGED <<timerQueue, call>>

\* src/unnamed/part_000:169-178
IsBlocked(url) ==
    \E needle \in {"analytics", "ads", "social", "disable-devtool",
                   "cloudflareinsights", "ainouzaudre", "pixel.embed", "histats"} :
        Includes(url, needle)

\* src/unnamed/part_000:181-183
IsStream(url, processedUrls) ==
    /\ \E needle \in {".mp4", ".m3u8", "/mp4", "kendrickl"} : Includes(url, needle)
    /\ ~Includes(url, "vidjoy")
    /\ url \notin processedUrls

\* the page's 'request' handler, src/unnamed/part_000:166-225, for a request
\* it detects as a stream (any other request is aborted or continued and
\* leaves the extractor's state as it is)
NetworkEvent(i, name, url) ==
    /\ env.activity > 0
    /\ name \in env.responsive
    /\ req[i].tasks[name].ext = "running"
    /\ LET r == req[i]
           t == [r.tasks[name] EXCEPT !.browser = "open"]
           direct == << [key |-> <<name, "Link">>, url |-> url] >>
           seen == [t EXCEPT !.detectedStreams = Append(@, url),
                             !.processedUrls = @ \cup {url}]
       IN  /\ ~IsBlocked(url)
           /\ IsStream(url, t.processedUrls)
           /\ IF Includes(url, ".m3u8")
              THEN Continue(i, [r EXCEPT !.tasks[name] =
                        [seen EXCEPT !.pending = @ \cup {url}]])
              ELSE Continue(i, Add([r EXCEPT !.tasks[name] =
                        [seen EXCEPT !.streamUrls = ObjectAssign(@, direct)]],
                        direct, "request"))
    /\ env' = [env EXCEPT !.activity = @ - 1]
    /\ UNCHANGED <<timerQueue, call>>

\* the setImmediate callback of a detected manifest runs to its end,
\* src/unnamed/part_000:191-211
ManifestResolved(i, name, url, response) ==
    /\ url \in req[i].tasks[name].pending
    /\ LET r == req[i]
           parsedStreams == parseM3U8PlaylistImmediate(response, url, name)
           merged == [r EXCEPT !.tasks[name].streamUrls = ObjectAssign(@, parsedStreams),
                               !.tasks[name].pending = @ \ {url}]
       IN  Continue(i, IF Len(parsedStreams) > 0 THEN Add(merged, parsedStreams, "manifest")
                       ELSE merged)
    /\ UNCHANGED <<timerQueue, env, call>>

\* runExtractor leaves its try block, closes the browser and returns
\* streamUrls, src/unnamed/part_000:227-280; then the .then of
\* src/index.js:97-106.  It leaves through the catch block (caught) when
\* page.goto threw (navError) or when streamUrls is empty after the wait
\* ('No stream URL found'); either way the value returned is streamUrls.
ExtractorReturns(i, name, closeOk, navError) ==
    /\ env.activity > 0
    /\ name \in env.responsive
    /\ ~closeOk => env.closeFailures > 0
    /\ req[i].tasks[name].ext = "running"
    /\ LET r == req[i]
           t == r.tasks[name]
           result == t.streamUrls
           closed == [t EXCEPT !.ext = "returned",
                               !.processedUrls = {},
                               !.caught = navError \/ Len(result) = 0,
                               !.browser = IF closeOk THEN "closed" ELSE "closeFailed"]
       IN  IF t.status # "pending"
           THEN Continue(i, [r EXCEPT !.tasks[name] = closed])
           ELSE IF Len(result) > 0
           THEN Continue(i, Add([r EXCEPT !.tasks[name] =
                                    [closed EXCEPT !.status = "success"]], result, "then"))
           ELSE Continue(i, [r EXCEPT !.tasks[name] = [closed EXCEPT !.status = "empty"]])
    /\ env' = [env EXCEPT !.activity = @ - 1,
                          !.closeFailures = IF closeOk THEN @ ELSE @ - 1]
    /\ UNCHANGED <<timerQueue, call>>

\* the TTL of a Failure Memory entry (300 s, src/index.js:23) runs out
FailureExpires(key) ==
    /\ Has(failureCache, key)
    /\ failureCache' = CacheDel(failureCache, key)
    /\ UNCHANGED <<streamCache, req, timerQueue, env, populatedBy, call>>

\* the TTL of a Result Cache entry (src/index.js:210, :240) runs out
StreamExpires(key) ==
    /\ Has(streamCache, key)
    /\ streamCache' = CacheDel(streamCache, key)
    /\ populatedBy' = CacheDel(populatedBy, key)
    /\ UNCHANGED <<failureCache, req, timerQueue, env, call>>

Next ==
    \/ \E i \in Slots, input \in HandlerInputs : Arrive(i, input)
    \/ \E i \in Slots, metadata \in OmdbResults : CacheLookup(i, metadata)
    \/ \E i \in Slots : StartRun(i)
    \/ \E k \in 1..Len(timerQueue) : TimerFires(k)
    \/ \E i \in Slots, name \in SourceNames : ConnectFails(i, name)
    \/ \E i \in Slots, name \in SourceNames : SetupFails(i, name)
    \/ \E i \in Slots, name \in SourceNames, url \in RequestUrls : NetworkEvent(i, name, url)
    \/ \E i \in Slots, name \in SourceNames, response \in ManifestResponses :
          \E url \in req[i].tasks[name].pending : ManifestResolved(i, name, url, response)
    \/ \E i \in Slots, name \in SourceNames, closeOk \in BOOLEAN, navError \in BOOLEAN :
          ExtractorReturns(i, name, closeOk, navError)
    \/ \E key \in DOMAIN failureCache : FailureExpires(key)
    \/ \E key \in DOMAIN streamCache : StreamExpires(key)

Spec == Init /\ [][Next]_vars

\* one request: a single aggregation run
InitRun ==
    /\ streamCache = EmptyCache
    /\ failureCache = EmptyCache
    /\ req = [i \in Slots |-> IdleRequest]
    /\ timerQueue = << >>
    /\ populatedBy = EmptyCache
    /\ call = NoCall
    /\ env = [requests |-> 1, activity |-> MaxRunActivity,
              closeFailures |-> 1,
              responsive |-> {"vidlink", "vidify", "vidjoy"},
              inputs |-> { MovieInput },
              omdb |-> { OmdbUnknown }]

SpecRun == InitRun /\ [][Next]_vars

\* The record an earlier run on movie tt1 leaves when wooflix, vidfast and
\* vilora failed in it and the other three providers did not,
\* src/index.js:121-139
EarlierFailures ==
    (<<"failure", "movie", "tt1", Undefined, Undefined>> :> <<"wooflix", "vidfast", "vilora">>)

\* one request: the run that follows that earlier run on the key
InitRetry ==
    /\ streamCache = EmptyCache
    /\ failureCache = EarlierFailures
    /\ req = [i \in Slots |-> IdleRequest]
    /\ timerQueue = << >>
    /\ populatedBy = EmptyCache
    /\ call = NoCall
    /\ env = [requests |-> 1, activity |-> MaxRunActivity,
              closeFailures |-> 0,
              responsive |-> {"vidlink", "vidify", "vidjoy"},
              inputs |-> { MovieInput },
              omdb |-> { OmdbUnknown }]

SpecRetry == InitRetry /\ [][Next]_vars

-----------------------------------------------------------------------------
(* Properties *)

Launched(r) == { n \in SourceNames : r.tasks[n].status # "none" }

\* the request in the record ran an aggregation (it was no cache hit)
Ran(r) == r.pc \in {"running", "done"} /\ r.activeSources # << >>

RangeOf(list) == { list[k] : k \in 1..Len(list) }

FailureRecord(key) == IF Has(failureCache, key) THEN failureCache[key] ELSE << >>

\* C1: extractStreamsProgressively returns only after every task it launched
\* has settled (success, empty or failed), and a return brought about by the
\* timers leaves every extractor that is still running as it is.
C1_ReturnsAfterAllSettled ==
    /\ [](\A i \in Slots :
            (req[i].pc = "done" /\ Ran(req[i])) =>
                \A n \in Launched(req[i]) :
                    req[i].tasks[n].status \in {"success", "empty", "failed"})
    /\ [][\A i \in Slots, n \in SourceNames :
            ( /\ req[i].pc = "running"
              /\ req'[i].pc = "done"
              /\ env'.activity = env.activity
              /\ req[i].tasks[n].ext = "running" )
            => req'[i].tasks[n].ext = "running"]_vars

C1_Witness ==
    \E i \in Slots :
        /\ req[i].pc = "done"
        /\ \E n \in SourceNames :
              /\ req[i].tasks[n].status = "failed"
              /\ req[i].tasks[n].error = "timeout"
              /\ req[i].tasks[n].ext = "running"
        /\ \E n \in SourceNames : req[i].tasks[n].status = "success"
        /\ \E n \in SourceNames : req[i].tasks[n].status = "empty"

\* C2: no merge is lost: after every call of add(fragment), whoever made it,
\* every entry of the fragment is in the shared StreamMap.
C2_NoMergeLost ==
    \A i \in Slots : Contains(req[i].collector.results, req[i].lastAdd)

C2_Witness ==
    \E i \in Slots :
        /\ req[i].addedBy = {"request", "manifest", "then"}
        /\ Len(req[i].lastAdd) > 0
        /\ \E n, m \in SourceNames :
              /\ n # m
              /\ Len(req[i].tasks[n].streamUrls) > 0
              /\ Len(req[i].tasks[m].streamUrls) > 0

\* C3: at most one merge is in progress: _processing is false whenever no add
\* is executing, that is in every state, so no add begins with the flag set.
C3_OneMergeAtATime ==
    \A i \in Slots : ~req[i].collector._processing

C3_Witness ==
    \E i \in Slots :
        /\ req[i].pc = "running"
        /\ req[i].collector.count = 3
        /\ Cardinality(req[i].addedBy) >= 2
        /\ ~req[i].collector._processing

\* C4: the providers launched by a run are the registry minus the
\* FailureRecord that Failure Memory holds for the key when the run starts.
C4_EligibleIsRegistryMinusFailures ==
    [][\A i \in Slots :
        (req[i].pc = "meta2" /\ req'[i].pc # "meta2") =>
            Launched(req'[i]) =
                SourceNames \ RangeOf(FailureRecord(FailureKey(req[i])))]_vars

C4_Witness ==
    \E i \in Slots :
        /\ Ran(req[i])
        /\ Len(req[i].recentFailures) = 3
        /\ Cardinality(Launched(req[i])) = 3
        /\ RangeOf(req[i].recentFailures) \cap Launched(req[i]) = {}

\* C5: every FailureRecord in Failure Memory has at most 3 provider names.
C5_FailureRecordAtMostThree ==
    \A key \in DOMAIN failureCache : Len(failureCache[key]) <= 3

C5_Witness ==
    \E i \in Slots :
        /\ req[i].pc = "done"
        /\ Ran(req[i])
        /\ FailureKey(req[i]) \in req[i].concurrent
        /\ Len(FailureRecord(FailureKey(req[i]))) = 3

\* C6: on a hit of the Result Cache the request launches no task, sets no
\* timer, leaves Failure Memory as it is and, for equal metadata, answers with
\* the list the request that wrote the entry answered with.
C6_CacheHitIdempotent ==
    [][\A i \in Slots :
        ( /\ req[i].pc = "meta1"
          /\ req'[i].pc # "meta1"
          /\ Has(streamCache, CacheKey(req[i])) )
        => /\ req'[i].pc = "done"
           /\ Launched(req'[i]) = {}
           /\ timerQueue' = timerQueue
           /\ failureCache' = failureCache
           /\ streamCache' = streamCache
           /\ (req'[i].metadata = populatedBy[CacheKey(req[i])].metadata
                 => req'[i].response = populatedBy[CacheKey(req[i])].response)]_vars

C6_Witness ==
    \E i \in Slots :
        /\ req[i].pc = "done"
        /\ req[i].cacheHit
        /\ req[i].type = "series"
        /\ Len(req[i].response) = 2
        /\ Has(failureCache, FailureKey(req[i]))

\* C7: every CacheEntry holds at least one stream, and a run that returns an
\* empty map leaves the Result Cache as it is.
C7_CacheOnlyNonEmpty ==
    /\ [](\A key \in DOMAIN streamCache : Len(streamCache[key]) > 0)
    /\ [][\A i \in Slots :
            (req[i].pc = "running" /\ req'[i].pc = "done" /\ req'[i].returned = EmptyMap)
            => streamCache' = streamCache]_vars

C7_Witness ==
    \E i, j \in Slots :
        /\ req[i].pc = "done" /\ Ran(req[i])
        /\ req[i].returned = EmptyMap
        /\ ~Has(streamCache, CacheKey(req[i]))
        /\ req[j].pc = "done" /\ Ran(req[j])
        /\ Len(req[j].returned) > 0
        /\ Has(streamCache, CacheKey(req[j]))
        /\ streamCache[CacheKey(req[j])] = req[j].returned

\* C8: whatever the providers' outcomes, the run returns the shared map, which
\* is empty exactly when no add was called on the collector.
C8_AlwaysReturnsMap ==
    [][\A i \in Slots :
        (req[i].pc = "running" /\ req'[i].pc = "done") =>
            /\ req'[i].returned = req'[i].collector.results
            /\ (req'[i].returned = EmptyMap <=> req'[i].addedBy = {})]_vars

C8_Witness ==
    \E i \in Slots :
        /\ req[i].pc = "done"
        /\ req[i].returned = EmptyMap
        /\ \E n \in SourceNames : req[i].tasks[n].error = "unknown"
        /\ \E n \in SourceNames : req[i].tasks[n].error = "connect"
        /\ \E n \in SourceNames : req[i].tasks[n].error = "timeout"
        /\ \E n \in SourceNames : req[i].tasks[n].status = "empty"

\* C9: a movie or series request is answered with a non-empty list: one
\* 'unavailable' entry for an empty aggregation, one 'Service Temporarily
\* Unavailable' entry when processing threw.
C9_HandlerAlwaysAnswers ==
    \A i \in Slots :
        (req[i].pc = "done" /\ req[i].type \in {"movie", "series"}) =>
            /\ Len(req[i].response) >= 1
            /\ req[i].threw => req[i].response = << ServiceUnavailableEntry >>
            /\ (Ran(req[i]) /\ ~req[i].threw /\ req[i].returned = EmptyMap) =>
                    req[i].response =
                        << NoStreamsEntry(DisplayTitle(req[i].metadata,
                                                       req[i].season, req[i].episode)) >>

C9_Witness ==
    \E i, j \in Slots :
        /\ req[i].pc = "done" /\ req[i].threw
        /\ req[i].response = << ServiceUnavailableEntry >>
        /\ req[j].pc = "done" /\ Ran(req[j]) /\ req[j].returned = EmptyMap
        /\ Len(req[j].response) = 1

\* C10: no step of a run takes a key out of the shared map, and the keys
\* merged before the run returns, also by providers that timed out, are keys
\* of the returned map.
C10_TimeoutKeepsMerges ==
    [][\A i \in Slots :
        (req[i].pc = "running" /\ req'[i].pc \in {"running", "done"}) =>
            /\ Keys(req[i].collector.results) \subseteq Keys(req'[i].collector.results)
            /\ req'[i].pc = "done" =>
                  Keys(req[i].collector.results) \subseteq Keys(req'[i].returned)]_vars

C10_Witness ==
    \E i \in Slots, n \in SourceNames :
        /\ req[i].pc = "done"
        /\ req[i].tasks[n].error = "timeout"
        /\ Len(req[i].tasks[n].streamUrls) > 0
        /\ Keys(req[i].tasks[n].streamUrls) \subseteq Keys(req[i].returned)

\* the entries of map m that provider name contributed (key "<name> <label>")
ProviderEntries(m, name) == SelectSeq(m, LAMBDA e : e.key[1] = name)

\* C11: once a provider's timeout has fired, no later network event or
\* manifest resolution of its extraction adds entries to the shared map of
\* the run.
C11_NoMergeAfterExpiry ==
    [][\A i \in Slots, n \in SourceNames :
        ( /\ req[i].tasks[n].error = "timeout"
          /\ req'[i].tasks[n].error = "timeout" )
        => ProviderEntries(req'[i].collector.results, n)
               = ProviderEntries(req[i].collector.results, n)]_vars

\* a provider timed out, and its extraction merged into the shared map a key
\* that the run had not returned
C11_Witness ==
    \E i \in Slots, n \in SourceNames :
        /\ req[i].pc = "done"
        /\ req[i].tasks[n].error = "timeout"
        /\ ~(Keys(ProviderEntries(req[i].collector.results, n)) \subseteq Keys(req[i].returned))

\* C12: an error caught inside runExtractor (navigation error, no stream URL
\* found) gives an empty result and a failed outcome: the provider contributes
\* nothing, is in newFailures and in the record stored for the key.
C12_CaughtErrorIsFailure ==
    \A i \in Slots, n \in SourceNames :
        req[i].tasks[n].caught =>
            /\ req[i].tasks[n].status = "failed"
            /\ req[i].tasks[n].streamUrls = EmptyMap
            /\ req[i].pc = "done" => n \in RangeOf(NewFailures(req[i]))

\* runExtractor left through its catch block with nothing found, before the
\* timeout: the outcome is 'empty' and the run's failures do not name it
C12_Witness ==
    \E i \in Slots, n \in SourceNames :
        /\ req[i].pc = "done"
        /\ req[i].tasks[n].caught
        /\ req[i].tasks[n].streamUrls = EmptyMap
        /\ req[i].tasks[n].status = "empty"
        /\ n \notin RangeOf(NewFailures(req[i]))
        /\ Has(failureCache, FailureKey(req[i]))
        /\ n \notin RangeOf(failureCache[FailureKey(req[i])])

\* C13: a provider whose extractor returns an empty map before its timeout
\* has the outcome 'empty', is not in the record the run stores, and so is
\* launched by the next run on the key.
C13_EmptyIsNotFailure ==
    [][\A i \in Slots, n \in SourceNames :
        ( /\ req[i].pc = "running"
          /\ req'[i].pc = "done"
          /\ req'[i].tasks[n].ext = "returned"
          /\ req'[i].tasks[n].streamUrls = EmptyMap
          /\ req'[i].tasks[n].error # "timeout" )
        => /\ req'[i].tasks[n].status = "empty"
           /\ failureCache' # failureCache
                 => n \notin RangeOf(failureCache'[FailureKey(req[i])])]_vars

C13_Witness ==
    \E i, j \in Slots, n \in SourceNames :
        /\ i # j
        /\ FailureKey(req[i]) = FailureKey(req[j])
        /\ req[j].pc = "done" /\ Ran(req[j])
        /\ req[j].tasks[n].status = "empty"
        /\ Ran(req[i])
        /\ Len(req[i].recentFailures) = 3
        /\ n \in Launched(req[i])

EntrySet(m) == { m[k] : k \in 1..Len(m) }

Succeeded(r) == { n \in Launched(r) : r.tasks[n].status = "success" }

Failed(r) == { n \in Launched(r) : r.tasks[n].status = "failed" }

\* the launched providers split into those that succeeded and those that
\* failed or timed out
Split(r) == Launched(r) = Succeeded(r) \cup Failed(r) /\ Succeeded(r) # {}

\* the record stored is the previous record extended with exactly the names
\* in failed, cut to its last 3
RecordExtendedBy(record, previous, failed) ==
    /\ RangeOf(record) \subseteq RangeOf(previous) \cup failed
    /\ Len(record) = IF Len(previous) + Cardinality(failed) < 3
                     THEN Len(previous) + Cardinality(failed) ELSE 3
    /\ IF Cardinality(failed) >= 3 THEN RangeOf(record) \subseteq failed
       ELSE failed \subseteq RangeOf(record)

\* C14 as stated: when the launched providers split into failed F and
\* succeeded S, the returned map holds exactly the entries of S (none of a
\* provider in F), and the record stored is the previous one extended by F.
C14_OnlySuccessfulContribute ==
    [][\A i \in Slots :
        (req[i].pc = "running" /\ req'[i].pc = "done" /\ Split(req'[i])) =>
            /\ \A n \in Failed(req'[i]) : ProviderEntries(req'[i].returned, n) = << >>
            /\ \A n \in Succeeded(req'[i]) :
                  EntrySet(ProviderEntries(req'[i].returned, n))
                      = EntrySet(req'[i].tasks[n].streamUrls)
            /\ Failed(req'[i]) # {} =>
                  /\ Has(failureCache', FailureKey(req[i]))
                  /\ RecordExtendedBy(failureCache'[FailureKey(req[i])],
                                      req'[i].recentFailures, Failed(req'[i]))]_vars

\* C14: when the launched providers split into failed F and succeeded S, the
\* returned map holds exactly the entries S merged and the entries the
\* providers of F had merged before they failed or timed out, and the record
\* stored is the previous one extended by exactly the names of F, cut to 3.
C14_PartialFailure ==
    [][\A i \in Slots :
        (req[i].pc = "running" /\ req'[i].pc = "done" /\ Split(req'[i])) =>
            /\ \A n \in SourceNames :
                  EntrySet(ProviderEntries(req'[i].returned, n))
                      = EntrySet(req'[i].tasks[n].streamUrls)
            /\ Failed(req'[i]) # {} =>
                  /\ Has(failureCache', FailureKey(req[i]))
                  /\ RecordExtendedBy(failureCache'[FailureKey(req[i])],
                                      req'[i].recentFailures, Failed(req'[i]))]_vars

C14_Witness ==
    \E i \in Slots :
        /\ req[i].pc = "done"
        /\ Split(req[i])
        /\ \E n \in Failed(req[i]) :
              /\ req[i].tasks[n].error = "timeout"
              /\ ProviderEntries(req[i].returned, n) # << >>
        /\ \E n \in Succeeded(req[i]) : ProviderEntries(req[i].returned, n) # << >>
        /\ Has(failureCache, FailureKey(req[i]))
        /\ RangeOf(failureCache[FailureKey(req[i])]) \subseteq Failed(req[i])

\* When, within its run, a provider failed: the rejection of an unknown
\* provider reaches .catch while the run starts, a browser that cannot be
\* set up fails its task in a later callback, and the timers expire last.
FailedAt(r, n) ==
    IF r.tasks[n].error = "unknown" THEN 0
    ELSE IF r.tasks[n].error = "timeout" THEN 2 ELSE 1

\* C15: the record keeps the most recently failing providers: when a run's
\* failures make the list exceed 3, no name that is kept failed earlier than a
\* name that is dropped, also among the failures of the same run.
C15_OldestEvictedFirst ==
    [][\A i \in Slots :
        (req[i].pc = "running" /\ req'[i].pc = "done" /\ failureCache' # failureCache) =>
            LET r == req'[i]
                record == RangeOf(failureCache'[FailureKey(r)])
                new == RangeOf(NewFailures(r))
                old == RangeOf(r.recentFailures)
            IN  /\ \A k \in new \cap record, d \in new \ record :
                      FailedAt(r, k) >= FailedAt(r, d)
                /\ (old \cap record # {}) => new \subseteq record]_vars

\* the record keeps the provider that failed when the run started and drops
\* one that failed only when the timers expired
C15_Witness ==
    \E i \in Slots, k, d \in SourceNames :
        /\ req[i].pc = "done"
        /\ Has(failureCache, FailureKey(req[i]))
        /\ {k, d} \subseteq RangeOf(NewFailures(req[i]))
        /\ k \in RangeOf(failureCache[FailureKey(req[i])])
        /\ d \notin RangeOf(failureCache[FailureKey(req[i])])
        /\ req[i].tasks[k].error = "unknown"
        /\ req[i].tasks[d].error = "timeout"

\* C16: a provider in the record of key K is kept out of K's eligible set
\* for no longer than one TTL period after the run that recorded its failure.
\* The TTL of an entry starts anew with every set, so this asks that no run
\* stores again a name it read from the record: every name a run stores
\* failed in that run.
C16_ExcludedAtMostOneTtl ==
    [][\A i \in Slots :
        (req[i].pc = "running" /\ req'[i].pc = "done" /\ req'[i].failureWrites = 1) =>
            RangeOf(failureCache'[FailureKey(req[i])])
                \subseteq RangeOf(NewFailures(req'[i]))]_vars

\* a run stored, with a fresh TTL, a name that it read from the record and
\* did not launch
C16_Witness ==
    \E i \in Slots, n \in SourceNames :
        /\ req[i].pc = "done"
        /\ req[i].failureWrites = 1
        /\ n \in RangeOf(req[i].recentFailures)
        /\ n \notin Launched(req[i])
        /\ Has(failureCache, FailureKey(req[i]))
        /\ n \in RangeOf(failureCache[FailureKey(req[i])])

TimersOf(i) == { k \in 1..Len(timerQueue) : timerQueue[k].slot = i }

\* C17: the timers of a run are all set when it starts and run side by side:
\* a run in progress has a timer that has not fired, and the step in which
\* its last timer fires settles every task and ends the run, whether or not
\* an extractor is still running.
C17_BoundedByMaxTimeout ==
    /\ [](\A i \in Slots : req[i].pc = "running" => TimersOf(i) # {})
    /\ [][\A i \in Slots :
            (req[i].pc = "running" /\ TimersOf(i) # {}
                /\ \A k \in 1..Len(timerQueue') : timerQueue'[k].slot # i)
            => /\ req'[i].pc = "done"
               /\ \A n \in Launched(req'[i]) : req'[i].tasks[n].status # "pending"]_vars

C17_Witness ==
    \E i \in Slots :
        /\ req[i].pc = "done"
        /\ TimersOf(i) = {}
        /\ \A n \in Launched(req[i]) \cap extractors : req[i].tasks[n].error = "timeout"
        /\ Cardinality(Launched(req[i])) = 6
        /\ \E n \in SourceNames :
              req[i].tasks[n].ext = "running" /\ req[i].tasks[n].browser = "open"

\* C18: when a task is counted as settled no manifest resolution started by
\* it is still pending, and none merges after the task settled.
C18_SettlementWaitsForManifests ==
    /\ [](\A i \in Slots, n \in SourceNames :
            req[i].tasks[n].status \in {"success", "empty", "failed"} =>
                req[i].tasks[n].pending = {})
    /\ [][\A i \in Slots, n \in SourceNames :
            ( /\ req[i].tasks[n].status \in {"success", "empty", "failed"}
              /\ req'[i].tasks[n].status = req[i].tasks[n].status
              /\ req'[i].tasks[n].pending # req[i].tasks[n].pending
              /\ req'[i].tasks[n].pending \subseteq req[i].tasks[n].pending )
            => ProviderEntries(req'[i].collector.results, n)
                   = ProviderEntries(req[i].collector.results, n)]_vars

\* an extractor returned before its timeout while a manifest it detected was
\* still being resolved; the task counted as 'empty', the run returned an
\* empty map, and the resolution then merged into the run's collector
C18_Witness ==
    \E i \in Slots, n \in SourceNames :
        /\ req[i].pc = "done"
        /\ req[i].returned = EmptyMap
        /\ req[i].tasks[n].status = "empty"
        /\ req[i].tasks[n].ext = "returned"
        /\ Len(req[i].tasks[n].detectedStreams) > 0
        /\ req[i].tasks[n].pending = {}
        /\ ProviderEntries(req[i].collector.results, n) # << >>

\* C19: a browser that an extractor acquired is closed (a close is attempted)
\* on every way out of runExtractor: no extractor that has returned or
\* rejected leaves its browser open.
C19_BrowserReleasedOnExit ==
    \A i \in Slots, n \in SourceNames :
        req[i].tasks[n].ext \in {"returned", "rejected"} =>
            req[i].tasks[n].browser # "open"

\* runExtractor rejected after connect() gave it a browser
C19_Witness ==
    \E i \in Slots, n \in SourceNames :
        /\ req[i].pc = "done"
        /\ req[i].tasks[n].ext = "rejected"
        /\ req[i].tasks[n].error = "setup"
        /\ req[i].tasks[n].browser = "open"

\* C20: every run writes Failure Memory exactly once for its key, after all
\* its tasks have settled.
C20_FailureMemoryWrittenOnce ==
    \A i \in Slots :
        /\ (req[i].pc = "done" /\ Ran(req[i])) => req[i].failureWrites = 1
        /\ req[i].pc = "running" => req[i].failureWrites = 0

\* a run ended without a write: none of the providers it launched failed
C20_Witness ==
    \E i \in Slots :
        /\ req[i].pc = "done"
        /\ Ran(req[i])
        /\ req[i].failureWrites = 0
        /\ Failed(req[i]) = {}
        /\ ~Has(failureCache, FailureKey(req[i]))

-----------------------------------------------------------------------------
(* StreamMap well-formedness *)

\* the keys of m are distinct and no URL of m is the empty string
WellFormed(m) ==
    /\ \A k \in 1..Len(m) : m[k].url # << >>
    /\ \A k, l \in 1..Len(m) : m[k].key = m[l].key => k = l

\* C21: in every reachable state the shared StreamMap of a run, the map a
\* run returned and every Result Cache entry have no empty URL and hold
\* each display key at most once.
C21_MapsWellFormed ==
    /\ \A i \in Slots :
        /\ WellFormed(req[i].collector.results)
        /\ WellFormed(req[i].returned)
        /\ \A n \in SourceNames : WellFormed(req[i].tasks[n].streamUrls)
    /\ \A key \in DOMAIN streamCache : WellFormed(streamCache[key])

\* a provider detected two URLs that both took the key `${source} Link`: the
\* second assignment overwrote the first, and the map was cached
C21_Witness ==
    \E i \in Slots, n \in SourceNames :
        /\ req[i].pc = "done"
        /\ Len(req[i].tasks[n].detectedStreams) = 2
        /\ req[i].tasks[n].pending = {}
        /\ Keys(req[i].tasks[n].streamUrls) = { <<n, "Link">> }
        /\ Has(streamCache, CacheKey(req[i]))
        /\ Keys(streamCache[CacheKey(req[i])]) = { <<n, "Link">> }

-----------------------------------------------------------------------------
(* The manifest resolver on its own: one detected manifest URL, from the    *)
(* request handler's setImmediate callback (src/unnamed/part_000:190-211)   *)
(* through parseM3U8PlaylistImmediate to the collector.                      *)

\* the attributes m3u8-parser reports for a rendition
Heights == {360, 480, 720, 1080}
Bandwidths == {0, 500000, 800000, 1500000, 3000000}
Attributes ==
    { [RESOLUTION |-> r, BANDWIDTH |-> b] :
        r \in {<< >>} \cup { << [height |-> h] >> : h \in Heights },
        b \in {<< >>} \cup { << v >> : v \in Bandwidths } }

\* the URI lines of a rendition: relative, rooted, absolute, and relative
\* with a first directory whose name begins with the letters http
RelativeUri  == <<"video", "1.m3u8">>
RootedUri    == <<"", "v", "1.m3u8">>
AbsoluteUri  == <<"https:", "", "cdn.test", "v", "1.m3u8">>
HttpNamedUri == <<"http_low", "1.m3u8">>
RenditionUris == { RelativeUri, RootedUri, AbsoluteUri, HttpNamedUri }

\* The label of a rendition is computed from its attributes alone and its
\* URL from its URI alone, so the renditions vary one of the two at a time.
Renditions ==
    { [RESOLUTION |-> a.RESOLUTION, BANDWIDTH |-> a.BANDWIDTH, uri |-> RelativeUri] :
        a \in Attributes }
    \cup { [RESOLUTION |-> << [height |-> 720] >>, BANDWIDTH |-> << >>, uri |-> u] :
        u \in RenditionUris }

\* a master manifest with the rendition heights 1080, 720, 480 and 360
FourHeightsManifest ==
    [error |-> FALSE,
     playlists |->
        [k \in 1..4 |->
            [RESOLUTION |-> << [height |-> <<1080, 720, 480, 360>>[k]] >>,
             BANDWIDTH |-> << >>,
             uri |-> <<"video", <<"1.m3u8", "2.m3u8", "3.m3u8", "4.m3u8">>[k]>>]]]

\* a master manifest whose six renditions receive all five labels, the
\* first and the last of them 1080p
AllLabelsManifest ==
    [error |-> FALSE,
     playlists |->
        FourHeightsManifest.playlists
        \o << [RESOLUTION |-> << >>, BANDWIDTH |-> << >>, uri |-> <<"video", "5.m3u8">>],
               [RESOLUTION |-> << >>, BANDWIDTH |-> << 3000000 >>,
                uri |-> <<"video", "6.m3u8">>] >>]

PlaylistLists ==
    UNION { [1..n -> Renditions] : n \in 0..MaxPlaylists }

ResolverResponses ==
    { FetchError, FourHeightsManifest, AllLabelsManifest }
    \cup { [error |-> FALSE, playlists |-> ps] : ps \in PlaylistLists }

\* the manifest URLs a page requests: plain, and with a signed query whose
\* value contains a slash ("https://h.test/a/master.m3u8?t=x/y")
SignedManifestUrl == <<"https:", "", "h.test", "a", "master.m3u8?t=x", "y">>
PlaylistUrls == { ManifestUrl, SignedManifestUrl }

InitResolver ==
    /\ streamCache = EmptyCache
    /\ failureCache = EmptyCache
    /\ req = [i \in Slots |-> IdleRequest]
    /\ timerQueue = << >>
    /\ populatedBy = EmptyCache
    /\ env = [requests |-> 0, activity |-> 0, closeFailures |-> 0,
              responsive |-> {}, inputs |-> {}, omdb |-> {}]
    /\ \E response \in ResolverResponses, playlistUrl \in PlaylistUrls,
          source \in {"vidlink", "vidify"} :
            /\ Includes(playlistUrl, ".m3u8")
            /\ call = [fn |-> "detected", response |-> response,
                       playlistUrl |-> playlistUrl, source |-> source,
                       parsedStreams |-> EmptyMap, streamUrls |-> EmptyMap,
                       collector |-> NewCollector]

\* await parseM3U8PlaylistImmediate(requestUrl, source), part_000:194
ParseReturns ==
    /\ call.fn = "detected"
    /\ call' = [call EXCEPT
            !.fn = "parsed",
            !.parsedStreams = parseM3U8PlaylistImmediate(call.response,
                                    call.playlistUrl, call.source)]
    /\ UNCHANGED <<streamCache, failureCache, req, timerQueue, env, populatedBy>>

\* the rest of the callback, part_000:196-201
Deliver ==
    /\ call.fn = "parsed"
    /\ call' = [call EXCEPT
            !.fn = "delivered",
            !.streamUrls = ObjectAssign(call.streamUrls, call.parsedStreams),
            !.collector = IF Len(call.parsedStreams) > 0
                          THEN CollectorAdd(call.collector, call.parsedStreams)
                          ELSE call.collector]
    /\ UNCHANGED <<streamCache, failureCache, req, timerQueue, env, populatedBy>>

NextResolver == ParseReturns \/ Deliver

SpecResolver == InitResolver /\ [][NextResolver]_vars

\* the function has returned
Parsed == call.fn \in {"parsed", "delivered"}

\* the master manifests: those with at least one rendition
IsMaster(response) == ~response.error /\ Len(response.playlists) > 0

\* the fallback of the catch block, part_000:121
Fallback(playlistUrl, source) == << [key |-> <<source, "Link">>, url |-> playlistUrl] >>

\* C22: the resolver labels every rendition of a master manifest by its
\* height when RESOLUTION is present (>= 1080 "1080p", >= 720 "720p", >= 480
\* "480p", else "360p"), otherwise by its bandwidth when BANDWIDTH is present
\* (>= 3000000 "1080p", >= 1500000 "720p", >= 800000 "480p", else "360p"),
\* otherwise "Unknown Quality"; for the heights 1080, 720, 480 and 360 the
\* labels are exactly 1080p, 720p, 480p and 360p.
C22_LabelsAsSpecified ==
    LET label(p) ==
            IF p.RESOLUTION # << >>
            THEN IF p.RESOLUTION[1].height >= 1080 THEN "1080p"
                 ELSE IF p.RESOLUTION[1].height >= 720 THEN "720p"
                 ELSE IF p.RESOLUTION[1].height >= 480 THEN "480p"
                 ELSE "360p"
            ELSE IF p.BANDWIDTH # << >>
            THEN IF p.BANDWIDTH[1] >= 3000000 THEN "1080p"
                 ELSE IF p.BANDWIDTH[1] >= 1500000 THEN "720p"
                 ELSE IF p.BANDWIDTH[1] >= 800000 THEN "480p"
                 ELSE "360p"
            ELSE "Unknown Quality"
    IN  (Parsed /\ IsMaster(call.response)) =>
            /\ Keys(call.parsedStreams) =
                    { <<call.source, label(call.response.playlists[k])>> :
                        k \in 1..Len(call.response.playlists) }
            /\ call.response = FourHeightsManifest =>
                    Keys(call.parsedStreams) =
                        { <<call.source, l>> : l \in {"1080p", "720p", "480p", "360p"} }

\* a rendition with BANDWIDTH=0 and no RESOLUTION came out as "Unknown Quality"
C22_Witness ==
    /\ Parsed
    /\ Len(call.response.playlists) = 1
    /\ call.response.playlists[1].RESOLUTION = << >>
    /\ call.response.playlists[1].BANDWIDTH = << 0 >>
    /\ Keys(call.parsedStreams) = { <<call.source, "Unknown Quality">> }

\* C23: the resolver resolves each rendition URI against the fetch URL: a
\* URI with a scheme is kept unchanged, a URI starting with "/" becomes
\* scheme and host of the fetch URL followed by the URI, and any other URI
\* becomes the directory of the fetch URL followed by "/" and the URI
\* (https://h.test/a/b/master.m3u8 with video/1.m3u8 gives
\* https://h.test/a/b/video/1.m3u8, and with /v/1.m3u8 gives
\* https://h.test/v/1.m3u8).
C23_UrisResolvedAsSpecified ==
    LET hasScheme(uri) == Len(uri) > 1 /\ uri[1] \in {"http:", "https:"} /\ uri[2] = ""
        hasQuery(segment) == segment \in {"master.m3u8?t=x"}
        \* the path of the URL up to its last "/", the query left aside
        directory(url) ==
            LET file == IF \E q \in 1..Len(url) : hasQuery(url[q])
                        THEN CHOOSE q \in 1..Len(url) : hasQuery(url[q])
                        ELSE Len(url)
            IN  SubSeq(url, 1, file - 1)
        resolved(uri, url) ==
            IF hasScheme(uri) THEN uri
            ELSE IF uri[1] = "" THEN <<url[1], "", url[3]>> \o Tail(uri)
            ELSE directory(url) \o uri
        ps == call.response.playlists
    IN  (Parsed /\ IsMaster(call.response)) =>
            /\ \A k \in 1..Len(ps) :
                    (\A l \in (k + 1)..Len(ps) : QualityLabel(ps[l]) # QualityLabel(ps[k])) =>
                        Get(call.parsedStreams, <<call.source, QualityLabel(ps[k])>>)
                            = resolved(ps[k].uri, call.playlistUrl)
            /\ (call.playlistUrl = ManifestUrl /\ Len(ps) = 1 /\ ps[1].uri = RelativeUri) =>
                    call.parsedStreams[1].url
                        = <<"https:", "", "h.test", "a", "b", "video", "1.m3u8">>
            /\ (call.playlistUrl = ManifestUrl /\ Len(ps) = 1 /\ ps[1].uri = RootedUri) =>
                    call.parsedStreams[1].url = <<"https:", "", "h.test", "v", "1.m3u8">>

\* a relative URI whose first directory is named http_low came out as it
\* went in, and a relative URI was appended to the query of a signed URL
C23_Witness ==
    /\ Parsed
    /\ Len(call.response.playlists) = 2
    /\ call.playlistUrl = SignedManifestUrl
    /\ call.response.playlists[1].uri = HttpNamedUri
    /\ call.response.playlists[2].uri = RelativeUri
    /\ Len(call.parsedStreams) = 2
    /\ call.parsedStreams[1].url = HttpNamedUri
    /\ call.parsedStreams[2].url
            = <<"https:", "", "h.test", "a", "master.m3u8?t=x", "video", "1.m3u8">>

\* C24: for a media manifest, one with no renditions, the resolver's output
\* is exactly one entry, keyed "<provider> Link", whose URL is the fetched
\* manifest URL itself.
C24_MediaManifestIsOneLink ==
    (Parsed /\ ~call.response.error /\ Len(call.response.playlists) = 0) =>
        call.parsedStreams = << [key |-> <<call.source, "Link">>, url |-> call.playlistUrl] >>

\* a media manifest was resolved and its one entry reached the collector
C24_Witness ==
    /\ call.fn = "delivered"
    /\ ~call.response.error
    /\ Len(call.response.playlists) = 0
    /\ call.collector.results
            = << [key |-> <<call.source, "Link">>, url |-> call.playlistUrl] >>

\* C25: the resolver always returns a map and never an empty one; on a fetch
\* or parse failure it returns exactly the one-entry fallback "<provider>
\* Link" -> manifest URL; so every detected manifest URL yields at least one
\* entry, and the callback hands what was returned to the collector.
C25_NeverEmptyAndDelivered ==
    Parsed =>
        /\ Len(call.parsedStreams) >= 1
        /\ call.response.error =>
                call.parsedStreams = Fallback(call.playlistUrl, call.source)
        /\ call.fn = "delivered" =>
                /\ Len(call.collector.results) >= 1
                /\ Contains(call.collector.results, call.parsedStreams)
                /\ Contains(call.streamUrls, call.parsedStreams)

\* the fetch failed and the fallback entry reached the collector
C25_Witness ==
    /\ call.fn = "delivered"
    /\ call.response.error
    /\ call.collector.results = Fallback(call.playlistUrl, call.source)
    /\ call.collector.count = 1

-----------------------------------------------------------------------------
(* The Result Presenter on its own: one call of formatStreams,              *)
(* src/index.js:151-189.                                                     *)

\* the display keys and URLs of the maps presented
PresentedKeys ==
    { <<"vidlink", l>> : l \in {"1080p", "720p", "480p", "360p", "Link"} }
    \cup { <<"vidify", "1080p">> }
PresentedUrls == { ManifestUrl, VideoUrl }

\* the StreamMaps of up to MaxEntries entries: distinct keys in any order of
\* insertion
PresentedMaps ==
    { m \in UNION { [1..n -> [key : PresentedKeys, url : PresentedUrls]] : n \in 0..MaxEntries } :
        \A k, l \in 1..Len(m) : m[k].key = m[l].key => k = l }

\* the arguments of a call: the first one may be missing (undefined or null)
InitPresenter ==
    /\ streamCache = EmptyCache
    /\ failureCache = EmptyCache
    /\ req = [i \in Slots |-> IdleRequest]
    /\ timerQueue = << >>
    /\ populatedBy = EmptyCache
    /\ env = [requests |-> 0, activity |-> 0, closeFailures |-> 0,
              responsive |-> {}, inputs |-> {}, omdb |-> {}]
    /\ \E given \in BOOLEAN, m \in PresentedMaps,
          title \in { [metadata |-> OmdbUnknown, season |-> Undefined, episode |-> Undefined],
                      [metadata |-> OmdbFound, season |-> "1", episode |-> "2"] } :
            /\ ~given => m = EmptyMap
            /\ call = [fn |-> "formatting", given |-> given, streams |-> m,
                       argument |-> m, metadata |-> title.metadata,
                       season |-> title.season, episode |-> title.episode,
                       output |-> << >>]

\* formatStreams(streams, metadata, season, episode) with `!streams ||` of
\* src/index.js:156 for a missing first argument
FormatReturns ==
    /\ call.fn = "formatting"
    /\ call' = [call EXCEPT
            !.fn = "formatted",
            !.output =
                IF ~call.given
                THEN << NoStreamsEntry(DisplayTitle(call.metadata, call.season, call.episode)) >>
                ELSE formatStreams(call.streams, call.metadata, call.season, call.episode)]
    /\ UNCHANGED <<streamCache, failureCache, req, timerQueue, env, populatedBy>>

NextPresenter == FormatReturns

SpecPresenter == InitPresenter /\ [][NextPresenter]_vars

\* formatStreams has returned
Formatted == call.fn = "formatted"

\* the output entry is the "No Streams Available" sentinel
IsSentinel(entry) == entry.url = <<"https:", "", "example.com", "unavailable">>

\* C26: formatStreams ranks a non-empty StreamMap: its output has one entry
\* per entry of the map, with the same URL, ordered by the quality rank of
\* the label ("1080p" before "720p" before "480p" before everything else),
\* entries of equal rank keep the order they have in the map, and the map
\* passed in is left unchanged.
C26_StableRankingOfEntries ==
    LET rank(key) == IF key[2] = "1080p" THEN 1
                     ELSE IF key[2] = "720p" THEN 2
                     ELSE IF key[2] = "480p" THEN 3
                     ELSE 4
        in  == call.argument
        out == call.output
        pos(key) == CHOOSE k \in 1..Len(in) : in[k].key = key
    IN  (Formatted /\ call.given /\ Len(in) > 0) =>
            /\ Len(out) = Len(in)
            /\ \A k \in 1..Len(in) :
                    \E o \in 1..Len(out) :
                        out[o].name[2] = in[k].key /\ out[o].url = in[k].url
            /\ \A a, b \in 1..Len(out) :
                    a < b =>
                        \/ rank(out[a].name[2]) < rank(out[b].name[2])
                        \/ /\ rank(out[a].name[2]) = rank(out[b].name[2])
                           /\ pos(out[a].name[2]) < pos(out[b].name[2])
            /\ call.streams = call.argument

\* a map inserted as Link, 1080p, 360p came out as 1080p, Link, 360p: the
\* 1080p entry moved to the front and the two others kept their order
C26_Witness ==
    /\ Formatted
    /\ call.given
    /\ Len(call.argument) = 3
    /\ call.argument[1].key = <<"vidlink", "Link">>
    /\ call.argument[2].key = <<"vidlink", "1080p">>
    /\ call.argument[3].key = <<"vidlink", "360p">>
    /\ Len(call.output) = 3
    /\ call.output[1].name[2] = <<"vidlink", "1080p">>
    /\ call.output[2].name[2] = <<"vidlink", "Link">>
    /\ call.output[3].name[2] = <<"vidlink", "360p">>

\* C27: formatStreams returns exactly one "No Streams Available" sentinel
\* entry if and only if the StreamMap is empty or missing, and never returns
\* the sentinel together with real entries.
C27_SentinelIffEmpty ==
    Formatted =>
        /\ (Len(call.output) = 1 /\ IsSentinel(call.output[1]))
                <=> (~call.given \/ Len(call.argument) = 0)
        /\ (call.given /\ Len(call.argument) > 0) =>
                \A o \in 1..Len(call.output) : ~IsSentinel(call.output[o])
        /\ (~call.given \/ Len(call.argument) = 0) =>
                call.output = << NoStreamsEntry(DisplayTitle(call.metadata, call.season,
                                                            call.episode)) >>

\* an empty map was presented as the one sentinel entry
C27_Witness ==
    /\ Formatted
    /\ call.given
    /\ Len(call.argument) = 0
    /\ Len(call.output) = 1
    /\ IsSentinel(call.output[1])

-----------------------------------------------------------------------------
(* Task outcomes *)

\* the registry providers that have no URL builder
Unbuildable == { n \in SourceNames : n \notin extractors }

\* the task of provider n in record r failed with the unknown-provider error
\* before doing anything: no browser, no detection, no merge
UnknownProviderFailure(r, n) ==
    /\ r.tasks[n].status = "failed"
    /\ r.tasks[n].error = "unknown"
    /\ r.tasks[n].ext = "rejected"
    /\ r.tasks[n].browser = "none"
    /\ r.tasks[n].detectedStreams = << >>
    /\ ProviderEntries(r.collector.results, n) = << >>

\* C28: a registry provider with no URL builder (vilora) fails with an
\* unknown-provider error scoped to its own task: no browser is acquired for
\* it, the other eligible tasks are started and merge as they would without
\* it, the run returns a map, and the provider is recorded as failed.
C28_UnknownProviderScoped ==
    /\ [](\A i \in Slots, n \in Unbuildable :
            (Ran(req[i]) /\ n \in RangeOf(req[i].activeSources)) =>
                /\ UnknownProviderFailure(req[i], n)
                /\ req[i].pc = "done" => n \in Failed(req[i]))
    /\ [][\A i \in Slots :
            /\ (req[i].pc = "meta2" /\ req'[i].pc = "running") =>
                    \A n \in RangeOf(req'[i].activeSources) \ Unbuildable :
                        /\ req'[i].tasks[n].ext = "running"
                        /\ req'[i].tasks[n].status = "pending"
            /\ (req[i].pc = "running" /\ req'[i].pc = "running") =>
                    \A n \in RangeOf(req[i].activeSources) \ Unbuildable :
                        Contains(req'[i].collector.results, req'[i].tasks[n].streamUrls)
            /\ (req[i].pc = "running" /\ req'[i].pc = "done"
                    /\ Unbuildable \cap RangeOf(req[i].activeSources) # {}) =>
                    /\ req'[i].returned = req'[i].collector.results
                    /\ Has(failureCache', FailureKey(req[i]))
                    /\ Unbuildable \cap RangeOf(req[i].activeSources)
                            \subseteq RangeOf(failureCache'[FailureKey(req[i])])
       ]_vars

\* a run in which vilora failed as unknown while another provider succeeded
\* and its entries were returned, and vilora is in the record stored
C28_Witness ==
    \E i \in Slots, n \in SourceNames :
        /\ req[i].pc = "done"
        /\ UnknownProviderFailure(req[i], "vilora")
        /\ req[i].tasks[n].status = "success"
        /\ Len(req[i].tasks[n].streamUrls) > 0
        /\ Contains(req[i].returned, req[i].tasks[n].streamUrls)
        /\ "vilora" \in RangeOf(FailureRecord(FailureKey(req[i])))

\* the outcomes a task ends in
Terminal == {"success", "empty", "failed"}

\* C29: each launched task takes one terminal outcome (success, empty, or
\* failed by error or timeout) and never changes it: when the timeout fired
\* first the task stays failed even when its extractor later returns streams,
\* and the completion handler does not merge that late result; when the
\* extractor returned first, the later firing of the timer changes neither
\* the outcome nor the FailureRecord.
C29_OutcomeIsFinal ==
    [][\A i \in Slots :
        (req[i].pc \in {"running", "done"} /\ req'[i].pc \in {"running", "done"}) =>
            /\ \A n \in SourceNames :
                /\ req[i].tasks[n].status \in Terminal =>
                        /\ req'[i].tasks[n].status = req[i].tasks[n].status
                        /\ req'[i].tasks[n].error = req[i].tasks[n].error
                /\ ( /\ req[i].tasks[n].error = "timeout"
                     /\ req[i].tasks[n].ext = "running"
                     /\ req'[i].tasks[n].ext = "returned" ) =>
                        /\ req'[i].collector = req[i].collector
                        /\ req'[i].addedBy = req[i].addedBy
            /\ (req[i].pc = "running" /\ req'[i].pc = "done") =>
                    \A n \in Launched(req[i]) :
                        (Has(failureCache', FailureKey(req[i]))
                            /\ n \in RangeOf(failureCache'[FailureKey(req[i])]))
                        => req'[i].tasks[n].status = "failed"
      ]_vars

\* The timers of a run fired after one extractor had returned nothing and
\* before another had returned: the first task is still empty, the second
\* failed by timeout, and its extractor has since returned with streams.
C29_Witness ==
    \E i \in Slots, n, m \in SourceNames :
        /\ req[i].pc = "done"
        /\ TimersOf(i) = {}
        /\ req[i].tasks[n].error = "timeout"
        /\ req[i].tasks[n].status = "failed"
        /\ req[i].tasks[n].ext = "returned"
        /\ Len(req[i].tasks[n].streamUrls) > 0
        /\ req[i].tasks[m].status = "empty"
        /\ n \in RangeOf(FailureRecord(FailureKey(req[i])))
        /\ m \notin RangeOf(FailureRecord(FailureKey(req[i])))

-----------------------------------------------------------------------------
(* Termination *)

\* some timer that may expire does
TimersFire == \E k \in 1..Len(timerQueue) : TimerFires(k)

\* Node's timer phase runs every expired timer: a timer that is set fires
SpecFair == Init /\ [][Next]_vars /\ WF_vars(TimersFire)

\* C30: every aggregation run terminates: when timers fire fairly,
\* extractStreamsProgressively eventually returns, also when extractors
\* never return, because every task is raced against its own timeout.
C30_RunTerminates ==
    \A i \in Slots : (req[i].pc = "running") ~> (req[i].pc = "done")

\* a run returned while the extractor of one of its tasks was still running
C30_Witness ==
    \E i \in Slots, n \in SourceNames :
        /\ req[i].pc = "done"
        /\ Ran(req[i])
        /\ req[i].tasks[n].ext = "running"
        /\ req[i].tasks[n].error = "timeout"
        /\ TimersOf(i) = {}

-----------------------------------------------------------------------------
(* Requests on one key that overlap *)

\* requests for movie tt1 arriving while an earlier run on the key left the
\* record EarlierFailures
InitOverlap ==
    /\ streamCache = EmptyCache
    /\ failureCache = EarlierFailures
    /\ req = [i \in Slots |-> IdleRequest]
    /\ timerQueue = << >>
    /\ populatedBy = EmptyCache
    /\ call = NoCall
    /\ env = [requests |-> MaxRequests, activity |-> MaxOverlapActivity,
              closeFailures |-> 0,
              responsive |-> {"vidlink"},
              inputs |-> { MovieInput },
              omdb |-> { OmdbUnknown }]

SpecOverlap == InitOverlap /\ [][Next]_vars

\* the runs in slots i and j were on the same key and in progress together
Overlapped(i, j) ==
    /\ i # j
    /\ req[i].pc = "done" /\ Ran(req[i])
    /\ req[j].pc = "done" /\ Ran(req[j])
    /\ FailureKey(req[i]) = FailureKey(req[j])
    /\ FailureKey(req[i]) \in req[j].concurrent

\* C31: when two requests on the same key overlap, reading the FailureRecord
\* at the start and writing it at the end loses no update: after both runs
\* have finished, every provider that failed in either run is in the key's
\* FailureRecord, unless the trim to 3 entries dropped it (and then the 3
\* entries kept are failures of these runs, which are the newer ones).
C31_NoLostFailureUpdate ==
    \A i, j \in Slots :
        (Overlapped(i, j) /\ Has(failureCache, FailureKey(req[i]))) =>
            LET record == failureCache[FailureKey(req[i])]
                failed == Failed(req[i]) \cup Failed(req[j])
            IN  \A n \in failed :
                    \/ n \in RangeOf(record)
                    \/ Len(record) = 3 /\ RangeOf(record) \subseteq failed

\* Both runs read the record wooflix, vidfast, vilora.  In one of them all
\* three providers failed; in the other vidlink did not, and its write put
\* back the record it had read, extended with vidify and vidjoy.
C31_Witness ==
    \E i, j \in Slots :
        /\ Overlapped(i, j)
        /\ Failed(req[i]) = {"vidlink", "vidify", "vidjoy"}
        /\ Failed(req[j]) = {"vidify", "vidjoy"}
        /\ Has(failureCache, FailureKey(req[i]))
        /\ failureCache[FailureKey(req[i])] = <<"vilora", "vidify", "vidjoy">>

-----------------------------------------------------------------------------
(* Failure Memory *)

\* no name occurs twice in the list
NoRepeat(list) == \A k, l \in 1..Len(list) : list[k] = list[l] => k = l

\* C32: in every reachable state no FailureRecord holds a provider name
\* twice: the names a run appends are disjoint from the record it read, since
\* a recorded provider is not launched and so cannot fail in that run.
C32_NoNameTwice ==
    /\ \A key \in DOMAIN failureCache : NoRepeat(failureCache[key])
    /\ \A i \in Slots :
            Ran(req[i]) =>
                /\ RangeOf(req[i].recentFailures) \cap Launched(req[i]) = {}
                /\ NoRepeat(req[i].recentFailures \o NewFailures(req[i]))

\* a run that had read a record with names in it failed providers of its
\* own and stored the extended record
C32_Witness ==
    \E i \in Slots :
        /\ req[i].pc = "done"
        /\ Len(req[i].recentFailures) > 0
        /\ Len(NewFailures(req[i])) > 0
        /\ Has(failureCache, FailureKey(req[i]))
        /\ failureCache[FailureKey(req[i])]
                = SliceLast(req[i].recentFailures \o NewFailures(req[i]), 3)

\* the request in the record went through extractStreamsProgressively
Aggregated(r) ==
    /\ r.pc \in {"running", "done"}
    /\ r.type \in {"movie", "series"}
    /\ ~r.cacheHit

\* C33: Failure Memory never suppresses every provider: in every aggregation
\* run at least |SOURCES| - 3 = 3 of the 6 registered providers are eligible
\* and launched, whatever failures came before on the key.
C33_AtLeastThreeLaunched ==
    \A i \in Slots :
        Aggregated(req[i]) =>
            /\ Len(req[i].activeSources) >= Len(SOURCES) - 3
            /\ Len(req[i].activeSources) >= 3
            /\ Launched(req[i]) = RangeOf(req[i].activeSources)
            /\ Cardinality(Launched(req[i])) >= 3

\* a run that found three names recorded and launched the three others
C33_Witness ==
    \E i \in Slots :
        /\ Aggregated(req[i])
        /\ Len(req[i].recentFailures) = 3
        /\ Cardinality(Launched(req[i])) = 3

-----------------------------------------------------------------------------
(* Display keys *)

\* the labels a display key ends in
Labels == {"1080p", "720p", "480p", "360p", "Unknown Quality", "Link"}

\* the providers whose entries in the shared map differ between r and s
Touched(r, s) ==
    { n \in SourceNames :
        ProviderEntries(s.collector.results, n) # ProviderEntries(r.collector.results, n) }

\* C34: display keys are namespaced by provider: every key of the shared
\* StreamMap is "<provider> <label or Link>" for a provider launched in that
\* run, so a merge by one provider never overwrites an entry of another
\* provider; last-write-wins collisions happen only within one provider.
C34_KeysNamespaced ==
    /\ [](\A i \in Slots :
            \A k \in 1..Len(req[i].collector.results) :
                /\ req[i].collector.results[k].key[1] \in Launched(req[i])
                /\ req[i].collector.results[k].key[2] \in Labels)
    /\ [][\A i \in Slots :
            (req[i].pc \in {"running", "done"} /\ req'[i].pc \in {"running", "done"}) =>
                /\ Cardinality(Touched(req[i], req'[i])) <= 1
                /\ \A n \in Touched(req[i], req'[i]) :
                        req'[i].tasks[n] # req[i].tasks[n]
                /\ \A k \in 1..Len(req[i].collector.results) :
                        LET e == req[i].collector.results[k] IN
                        e.key[1] \notin Touched(req[i], req'[i]) =>
                            /\ e.key \in Keys(req'[i].collector.results)
                            /\ Get(req'[i].collector.results, e.key) = e.url
       ]_vars

\* the shared map holds entries of two providers, one of which detected two
\* URLs on the same key and kept the later one
C34_Witness ==
    \E i \in Slots, n, m \in SourceNames :
        /\ n # m
        /\ Len(req[i].tasks[n].detectedStreams) = 2
        /\ req[i].tasks[n].pending = {}
        /\ Len(ProviderEntries(req[i].collector.results, n)) = 1
        /\ Len(ProviderEntries(req[i].collector.results, m)) = 1

-----------------------------------------------------------------------------
(* Merges after the return *)

\* C35: a merge that lands after the aggregator has returned (from a
\* timed-out extractor or a manifest resolution still under way) changes
\* nothing observable: the stream list already answered for that request,
\* the Result Cache entry written for its key, and the shared map and answer
\* of every other request stay as they are.
C35_LateMergeUnobservable ==
    [][\A i \in Slots :
        ( /\ req[i].pc = "done"
          /\ req'[i].pc = "done"
          /\ req'[i].collector # req[i].collector ) =>
            /\ req'[i].response = req[i].response
            /\ streamCache' = streamCache
            /\ \A j \in Slots \ {i} :
                    /\ req'[j].collector = req[j].collector
                    /\ req'[j].response = req[j].response
                    /\ req'[j].pc = req[j].pc
      ]_vars

\* a run returned streams, which were cached, and its shared map has since
\* received a further key, while another request on the key is in progress
\* or has been answered
C35_Witness ==
    \E i, j \in Slots :
        /\ i # j
        /\ req[i].pc = "done"
        /\ Ran(req[i])
        /\ Len(req[i].returned) > 0
        /\ Has(streamCache, CacheKey(req[i]))
        /\ streamCache[CacheKey(req[i])] = req[i].returned
        /\ Len(req[i].collector.results) > Len(req[i].returned)
        /\ Len(req[i].response) = Len(req[i].returned)
        /\ req[j].pc \in {"running", "done"}
        /\ Ran(req[j])

-----------------------------------------------------------------------------
(* Series requests *)

\* series requests, whose id may lack the season and episode parts
InitSeries ==
    /\ streamCache = EmptyCache
    /\ failureCache = EmptyCache
    /\ req = [i \in Slots |-> IdleRequest]
    /\ timerQueue = << >>
    /\ populatedBy = EmptyCache
    /\ call = NoCall
    /\ env = [requests |-> MaxRequests, activity |-> MaxActivity,
              closeFailures |-> 0,
              responsive |-> {"vidjoy"},
              inputs |-> { SeriesInput, ShortSeriesInput },
              omdb |-> { OmdbUnknown }]

SpecSeries == InitSeries /\ [][Next]_vars

\* C36: a series request requires season and episode: for a series id that
\* lacks either part no Extraction Task is launched and no Result Cache or
\* Failure Memory entry is written under a key built from the missing
\* values; in every aggregation run of type series both are defined.
C36_SeriesNeedsSeasonAndEpisode ==
    /\ \A i \in Slots :
            (req[i].type = "series"
                /\ (req[i].season = Undefined \/ req[i].episode = Undefined)) =>
                /\ ~Aggregated(req[i])
                /\ Launched(req[i]) = {}
    /\ \A key \in DOMAIN streamCache :
            key[1] = "series" => (key[3] # Undefined /\ key[4] # Undefined)
    /\ \A key \in DOMAIN failureCache :
            key[2] = "series" => (key[4] # Undefined /\ key[5] # Undefined)

\* the request series "tt1" ran an aggregation with season and episode
\* undefined, and its failures were recorded under the key built from them
C36_Witness ==
    \E i \in Slots :
        /\ req[i].pc = "done"
        /\ req[i].type = "series"
        /\ req[i].season = Undefined
        /\ req[i].episode = Undefined
        /\ Launched(req[i]) # {}
        /\ Has(failureCache, <<"failure", "series", "tt1", Undefined, Undefined>>)

-----------------------------------------------------------------------------
(* Renditions that share a label *)

\* the labels the renditions of the manifest receive
LabelsOf(playlists) == { QualityLabel(playlists[k]) : k \in 1..Len(playlists) }

\* the last rendition of the manifest that receives the label
LastWith(playlists, label) ==
    CHOOSE k \in 1..Len(playlists) :
        /\ QualityLabel(playlists[k]) = label
        /\ \A l \in (k + 1)..Len(playlists) : QualityLabel(playlists[l]) # label

\* C37: for a master manifest in which several renditions receive the same
\* label, the resolver emits one entry for the label, whose URL is that of
\* the last such rendition in manifest order; the output has as many
\* entries as there are distinct labels, at most 5.
C37_DuplicateLabelsLastWins ==
    (Parsed /\ IsMaster(call.response)) =>
        LET ps == call.response.playlists IN
        /\ Len(call.parsedStreams) = Cardinality(LabelsOf(ps))
        /\ Len(call.parsedStreams) <= 5
        /\ Keys(call.parsedStreams) = { <<call.source, l>> : l \in LabelsOf(ps) }
        /\ \A l \in LabelsOf(ps) :
                Get(call.parsedStreams, <<call.source, l>>)
                    = ResolveUri(ps[LastWith(ps, l)].uri, call.playlistUrl)

\* two renditions labelled 720p with different URIs gave one entry, with
\* the URL of the second
C37_Witness ==
    /\ Parsed
    /\ Len(call.response.playlists) = 2
    /\ QualityLabel(call.response.playlists[1]) = "720p"
    /\ QualityLabel(call.response.playlists[2]) = "720p"
    /\ call.response.playlists[1].uri = RelativeUri
    /\ call.response.playlists[2].uri = AbsoluteUri
    /\ call.parsedStreams = << [key |-> <<call.source, "720p">>, url |-> AbsoluteUri] >>

====
